---- MODULE Spec2Model ----
(***************************************************************************)
(* A model of gd.py's sprite data model (gd/image/sprite.py), of the two   *)
(* caching decorators of gd/decorators.py (run_once, cache_by), and of the *)
(* sheet / packer design that spec.md builds around the sprite model.      *)
(*                                                                         *)
(* Python object references are modelled as indices into heaps: `sprites`  *)
(* holds the Sprite objects, `sizes` the Size objects and `rects` the      *)
(* Rectangle objects, so that two sprites sharing one Size object (what    *)
(* Sprite.copy produces) are told apart from two sprites with equal sizes. *)
(***************************************************************************)
EXTENDS Integers, Sequences, FiniteSets, TLC

VARIABLES
  sprites,   \* heap of Sprite objects: Seq of sprite records
  sizes,     \* heap of Size objects: Seq of [width, height]
  rects,     \* heap of Rectangle objects: Seq of [x, y, width, height]
  mapping,   \* the sheets' name/alias lookup mappings: set of [sheet, key, sprite]
  ret,       \* what the last operation returned or raised
  bindings,  \* history: per sprite, its last binding operation ("never" when it
             \* was constructed unbound, "detach", or the sheet last attached)
  origins,   \* history: per sprite, the sprite it was made from by copy() (0 for
             \* a constructed sprite and for one made by inverted_size())
  packer,    \* the packing run: its configuration, the requests still to place,
             \* the open sheet's shelves, the sheets opened, its status
  once,      \* the function wrapped by run_once: its run_once_result attribute,
             \* and the history of its calls and executions
  cache,     \* the function wrapped by cache_by: its _cached and _cached_by
             \* attributes, and the history of its executions
  attrs      \* the attribute (named to cache_by) of each object

vars ==
  <<sprites, sizes, rects, mapping, ret, bindings, origins, packer, once, cache, attrs>>

\* The state of the sprite model.
spriteVars == <<sprites, sizes, rects, mapping, bindings, origins, packer>>

(***************************************************************************)
(* Bounds of the model.                                                    *)
(***************************************************************************)
\* Sprites derived (by copy / inverted_size) from the sprite under test, in
\* SpecCopy.
MaxCopies == 2

\* Sprites derived (by copy / inverted_size) from the sprite under test, in Spec.
MaxDerived == 1

\* Sprites derived from the sprite under test in SpecSheet: a copy chain of
\* three takes two.
MaxChain == 2

(***************************************************************************)
(* Values.                                                                 *)
(***************************************************************************)
\* Python's None.
None == "None"

\* The marker appended to a copy's name, once per copy level.
COPY_SUFFIX == "_copy"

\* The sheets a sprite can be attached to (object identities).
Sheets == {"sheetA", "sheetB"}

Point(px, py) == [x |-> px, y |-> py]
Size(w, h) == [width |-> w, height |-> h]
Rectangle(px, py, w, h) == [x |-> px, y |-> py, width |-> w, height |-> h]

(***************************************************************************)
(* gd.image.geometry: the inversions.  Its file is not among the sources;  *)
(* spec.md section 3 gives them: invert() swaps the two fields in place,   *)
(* inverted() returns a swapped copy, Rectangle.invert_size() swaps width  *)
(* and height without moving the origin.                                   *)
(***************************************************************************)
PointInverted(p) == [x |-> p.y, y |-> p.x]

SizeInverted(z) == [width |-> z.height, height |-> z.width]

RectangleInvertedSize(r) ==
  [x |-> r.x, y |-> r.y, width |-> r.height, height |-> r.width]

\* Size.invert(): the object at reference i of the heap h, swapped in place.
SizeInvert(h, i) == [h EXCEPT ![i] = SizeInverted(@)]

\* Rectangle.invert_size(): the object at reference i of the heap h, in place.
RectangleInvertSize(h, i) == [h EXCEPT ![i] = RectangleInvertedSize(@)]

(***************************************************************************)
(* Sprite: the attr dataclass.  size, source_size and rectangle are        *)
(* references into the heaps; name, aliases, relative_offset and rotated   *)
(* are never mutated by any Sprite method and are kept by value.           *)
(***************************************************************************)
Sprite(name, aliases, relative_offset, size, source_size, rectangle, rotated, copy_level, sheet_unchecked) ==
  [name |-> name, aliases |-> aliases, relative_offset |-> relative_offset,
   size |-> size, source_size |-> source_size, rectangle |-> rectangle,
   rotated |-> rotated, copy_level |-> copy_level,
   sheet_unchecked |-> sheet_unchecked]

RECURSIVE Repeat(_, _)
\* Python's str * int.
Repeat(s, n) == IF n <= 0 THEN "" ELSE s \o Repeat(s, n - 1)

\* Sprite.name_with_copy
name_with_copy(sp) == sp.name \o Repeat(COPY_SUFFIX, sp.copy_level)

\* Sprite.next_copy_level
next_copy_level(sp) == sp.copy_level + 1

(***************************************************************************)
(* Python's true division by two, exact: the quotient as a fraction in     *)
(* lowest terms, and the sum or difference of an integer and a fraction.   *)
(***************************************************************************)
Half(n) ==
  IF n % 2 = 0 THEN [num |-> n \div 2, den |-> 1] ELSE [num |-> n, den |-> 2]

Whole(n) == [num |-> n, den |-> 1]

Plus(n, q) == [num |-> n * q.den + q.num, den |-> q.den]

Minus(n, q) == [num |-> n * q.den - q.num, den |-> q.den]

\* A variant of offset that adds the vertical half-difference.
offset_same_sign(sp) ==
  [x |-> Plus(sp.relative_offset.x,
              Half(sizes[sp.source_size].width - rects[sp.rectangle].width)),
   y |-> Plus(sp.relative_offset.y,
              Half(sizes[sp.source_size].height - rects[sp.rectangle].height))]

\* Sprite.offset: a property, computed from the fields at every read.
offset(sp) ==
  [x |-> Plus(sp.relative_offset.x,
              Half(sizes[sp.source_size].width - rects[sp.rectangle].width)),
   y |-> Minus(sp.relative_offset.y,
               Half(sizes[sp.source_size].height - rects[sp.rectangle].height))]

\* What a call returned, or the exception it raised.
Returned(op, self, value) ==
  [op |-> op, self |-> self, raised |-> None, value |-> value]

Raised(op, self, error, message) ==
  [op |-> op, self |-> self, raised |-> error, value |-> message]

\* Sprite.get_sheet: the bound sheet, or ValueError when there is none.
get_sheet(op, s, sp) ==
  IF sp.sheet_unchecked = None
    THEN Raised(op, s, "ValueError",
                "Sheet is not attached to " \o name_with_copy(sp) \o ".")
    ELSE Returned(op, s, sp.sheet_unchecked)

\* A variant of set_sheet that keeps an existing binding.
set_sheet_once(sp, sheet) ==
  IF sp.sheet_unchecked = None THEN [sp EXCEPT !.sheet_unchecked = sheet] ELSE sp

\* Sprite.set_sheet
set_sheet(sp, sheet) == [sp EXCEPT !.sheet_unchecked = sheet]

\* Sprite.delete_sheet
delete_sheet(sp) == [sp EXCEPT !.sheet_unchecked = None]

\* A variant of copy that hands the source size object on as the size too.
copy_size_from_source(sp) ==
  Sprite(sp.name, sp.aliases, sp.relative_offset, sp.source_size, sp.source_size,
         sp.rectangle, sp.rotated, next_copy_level(sp), sp.sheet_unchecked)

\* A variant of copy that leaves the new sprite unbound.
copy_unbound(sp) ==
  Sprite(sp.name, sp.aliases, sp.relative_offset, sp.size, sp.source_size,
         sp.rectangle, sp.rotated, next_copy_level(sp), None)

\* Sprite.copy: a new Sprite holding the SAME aliases, relative_offset, size,
\* source_size and rectangle objects, one copy level up, with the same sheet.
copy(sp) ==
  Sprite(sp.name, sp.aliases, sp.relative_offset, sp.size, sp.source_size,
         sp.rectangle, sp.rotated, next_copy_level(sp), sp.sheet_unchecked)

\* A variant of inverted_size that keeps the source size object.
inverted_size_keep_source(sp, newSize, newSource, newRect) ==
  Sprite(sp.name, sp.aliases, sp.relative_offset, newSize, sp.source_size,
         newRect, sp.rotated, next_copy_level(sp), sp.sheet_unchecked)

\* Sprite.inverted_size: a new Sprite around the three new geometry objects that
\* size.inverted(), source_size.inverted() and rectangle.inverted_size() made.
inverted_size(sp, newSize, newSource, newRect) ==
  Sprite(sp.name, sp.aliases, sp.relative_offset, newSize, newSource,
         newRect, sp.rotated, next_copy_level(sp), sp.sheet_unchecked)

\* A variant of invert_size that does not invert the source size.
invert_size_sizes_skip_source(sp, h) == SizeInvert(h, sp.size)

\* Sprite.invert_size, its effect on the Size heap: size.invert(), then
\* source_size.invert() (one after the other, as the code runs them).
invert_size_sizes(sp, h) == SizeInvert(SizeInvert(h, sp.size), sp.source_size)

\* Sprite.invert_size, its effect on the Rectangle heap: rectangle.invert_size().
invert_size_rects(sp, h) == RectangleInvertSize(h, sp.rectangle)

(***************************************************************************)
(* Sheet: the name/alias lookup mapping.  gd/image/sheet.py is not among   *)
(* the sources; spec.md sections 4.3 and 4.4 (steps 6 and 7) give it: a    *)
(* mapping from every registered name or alias to its Sprite, filled when  *)
(* the packer attaches a sprite to the sheet, refusing a key that is       *)
(* already registered in that sheet.                                       *)
(***************************************************************************)
\* The keys a sprite is registered under: its name_with_copy, and for an
\* originally packed sprite its aliases (a copy's aliases stay the original's).
Keys(sp) == {name_with_copy(sp)} \cup (IF sp.copy_level = 0 THEN sp.aliases ELSE {})

\* The keys registered in a sheet.
Registered(sheet) == {e.key : e \in {m \in mapping : m.sheet = sheet}}

\* Sheet.lookup(key): the sprite registered under key, or LookupMiss.
lookup(sheet, key) ==
  IF key \in Registered(sheet)
    THEN Returned("lookup", sheet,
                  (CHOOSE e \in mapping : e.sheet = sheet /\ e.key = key).sprite)
    ELSE Raised("lookup", sheet, "LookupMiss", key)

\* The mapping with sprite s (the object sp) registered in sheet.
Register(sheet, s, sp) ==
  mapping \cup {[sheet |-> sheet, key |-> k, sprite |-> s] : k \in Keys(sp)}

\* A sprite is reachable from a sheet's mapping when some key resolves to it.
Reachable(s, sheet) == \E e \in mapping : e.sheet = sheet /\ e.sprite = s

(***************************************************************************)
(* The inputs: the sprite under test, as a caller constructs it.           *)
(***************************************************************************)
Names == {"hero", "coin"}

AliasesOf(name) == IF name = "hero" THEN {"player"} ELSE {}

\* Trimmed footprints (width, height) and the untrimmed source footprint.
TrimmedSizes == {Size(60, 80), Size(80, 80), Size(61, 100)}

SourceSizes == {Size(100, 80), Size(100, 100)}

IDs == 1..Len(sprites)

\* Sprite(name=..., ...): one Sprite constructed standalone (no sheet), with
\* fresh Size and Rectangle objects of its own.
Construct(name, trimmed, source, origin, relative_offset, rotated) ==
  /\ sizes = <<trimmed, source>>
  /\ rects = <<Rectangle(origin.x, origin.y, trimmed.width, trimmed.height)>>
  /\ sprites = <<Sprite(name, AliasesOf(name), relative_offset, 1, 2, 1,
                        rotated, 0, None)>>
  /\ mapping = {}
  /\ ret = Returned("Sprite", 1, 1)
  /\ bindings = <<"never">>
  /\ origins = <<0>>
  /\ packer = None
  /\ once = None /\ cache = None /\ attrs = None

(***************************************************************************)
(* Init: the state after the construction of the sprite under test.        *)
(***************************************************************************)
Init ==
  \E name \in Names, t \in TrimmedSizes, src \in SourceSizes,
     rel \in {Point(0, 0), Point(3, -4)} :
    Construct(name, t, src, Point(10, 20), rel, name = "coin")

(***************************************************************************)
(* The operations of Sprite, one action each.                              *)
(***************************************************************************)
\* sprite.attach_sheet(sheet): self.sheet = sheet; return self
AttachSheet(s, sheet) ==
  /\ sprites' = [sprites EXCEPT ![s] = set_sheet(@, sheet)]
  /\ ret' = Returned("attach_sheet", s, s)
  /\ bindings' = [bindings EXCEPT ![s] = sheet]
  /\ UNCHANGED <<origins, sizes, rects, mapping, packer, once, cache, attrs>>

\* sprite.detach_sheet(): del self.sheet; return self
DetachSheet(s) ==
  /\ sprites' = [sprites EXCEPT ![s] = delete_sheet(@)]
  /\ ret' = Returned("detach_sheet", s, s)
  /\ bindings' = [bindings EXCEPT ![s] = "detach"]
  /\ UNCHANGED <<origins, sizes, rects, mapping, packer, once, cache, attrs>>

\* sprite.sheet / sprite.get_sheet()
GetSheet(s) ==
  /\ ret' = get_sheet("get_sheet", s, sprites[s])
  /\ UNCHANGED <<sprites, sizes, rects, mapping, bindings, origins, packer, once, cache, attrs>>

\* sprite.copy(), while fewer than limit sprites were derived
Copy(s, limit) ==
  /\ Len(sprites) < 1 + limit
  /\ sprites' = Append(sprites, copy(sprites[s]))
  /\ ret' = Returned("copy", s, Len(sprites) + 1)
  /\ bindings' = Append(bindings, bindings[s])
  /\ origins' = Append(origins, s)
  /\ UNCHANGED <<sizes, rects, mapping, packer, once, cache, attrs>>

\* sprite.inverted_size(), while fewer than limit sprites were derived
InvertedSize(s, limit) ==
  /\ Len(sprites) < 1 + limit
  /\ sizes' = sizes \o <<SizeInverted(sizes[sprites[s].size]),
                         SizeInverted(sizes[sprites[s].source_size])>>
  /\ rects' = Append(rects, RectangleInvertedSize(rects[sprites[s].rectangle]))
  /\ sprites' = Append(sprites, inverted_size(sprites[s], Len(sizes) + 1,
                                              Len(sizes) + 2, Len(rects) + 1))
  /\ ret' = Returned("inverted_size", s, Len(sprites) + 1)
  /\ bindings' = Append(bindings, bindings[s])
  /\ origins' = Append(origins, 0)
  /\ UNCHANGED <<mapping, packer, once, cache, attrs>>

\* sprite.invert_size()
InvertSize(s) ==
  /\ sizes' = invert_size_sizes(sprites[s], sizes)
  /\ rects' = invert_size_rects(sprites[s], rects)
  /\ ret' = Returned("invert_size", s, s)
  /\ UNCHANGED <<sprites, mapping, bindings, origins, packer, once, cache, attrs>>

\* sprite.offset
ReadOffset(s) ==
  /\ ret' = Returned("offset", s, offset(sprites[s]))
  /\ UNCHANGED <<sprites, sizes, rects, mapping, bindings, origins, packer, once, cache, attrs>>

\* sprite.name_with_copy / str(sprite)
ReadNameWithCopy(s) ==
  /\ ret' = Returned("name_with_copy", s, name_with_copy(sprites[s]))
  /\ UNCHANGED <<sprites, sizes, rects, mapping, bindings, origins, packer, once, cache, attrs>>

(***************************************************************************)
(* The sheet's side (spec.md 4.4, steps 6 and 7): the packer attaches a    *)
(* sprite to its sheet and registers its keys, failing with NameCollision  *)
(* when a key is already registered there.                                 *)
(***************************************************************************)
SheetRegister(s, sheet) ==
  IF Keys(sprites[s]) \cap Registered(sheet) # {}
    THEN /\ ret' = Raised("register", s, "NameCollision", sheet)
         /\ UNCHANGED <<sprites, sizes, rects, mapping, bindings, origins, packer, once, cache, attrs>>
    ELSE /\ sprites' = [sprites EXCEPT ![s] = set_sheet(@, sheet)]
         /\ mapping' = Register(sheet, s, sprites[s])
         /\ ret' = Returned("register", s, sheet)
         /\ bindings' = [bindings EXCEPT ![s] = sheet]
         /\ UNCHANGED <<origins, sizes, rects, packer, once, cache, attrs>>

\* sheet.lookup(key)
SheetLookup(sheet, key) ==
  /\ ret' = lookup(sheet, key)
  /\ UNCHANGED <<sprites, sizes, rects, mapping, bindings, origins, packer, once, cache, attrs>>

\* The operations of Sprite.
Next ==
  \/ \E s \in IDs, sheet \in Sheets : AttachSheet(s, sheet)
  \/ \E s \in IDs : DetachSheet(s)
  \/ \E s \in IDs : GetSheet(s)
  \/ \E s \in IDs : Copy(s, MaxDerived)
  \/ \E s \in IDs : InvertedSize(s, MaxDerived)
  \/ \E s \in IDs : InvertSize(s)

Spec == Init /\ [][Next]_vars

(***************************************************************************)
(* SpecSheet: sprites together with the sheets' lookup mappings.           *)
(***************************************************************************)
InitSheet ==
  \E name \in Names :
    Construct(name, Size(60, 80), Size(100, 80), Point(10, 20), Point(0, 0), FALSE)

NextSheet ==
  \/ \E s \in IDs, sheet \in Sheets : AttachSheet(s, sheet)
  \/ \E s \in IDs : DetachSheet(s)
  \/ \E s \in IDs : Copy(s, MaxChain)
  \/ \E s \in IDs : InvertedSize(s, MaxChain)
  \/ \E s \in IDs : ReadNameWithCopy(s)
  \/ \E s \in IDs, sheet \in Sheets : SheetRegister(s, sheet)
  \/ \E s \in IDs, sheet \in Sheets : SheetLookup(sheet, name_with_copy(sprites[s]))

SpecSheet == InitSheet /\ [][NextSheet]_vars

(***************************************************************************)
(* SpecCopy: chains of copies under attach, detach and in-place inversion. *)
(***************************************************************************)
\* One sprite under test: the copies multiply the states, not the first sprite.
InitCopy ==
  Construct("hero", Size(60, 80), Size(100, 80), Point(10, 20), Point(3, -4), FALSE)

NextCopy ==
  \/ \E s \in IDs, sheet \in Sheets : AttachSheet(s, sheet)
  \/ \E s \in IDs : DetachSheet(s)
  \/ \E s \in IDs : Copy(s, MaxCopies)
  \/ \E s \in IDs : InvertedSize(s, MaxCopies)
  \/ \E s \in IDs : InvertSize(s)

SpecCopy == InitCopy /\ [][NextCopy]_vars

(***************************************************************************)
(* SpecOffset: the offset property over a range of footprints.             *)
(***************************************************************************)
\* Widths and heights of the footprints, and the trimming corrections.
Dims == {60, 61, 80, 100}

RelativeOffsets == {Point(0, 0), Point(3, -4), Point(-1, 2)}

InitOffset ==
  \E tw \in Dims, th \in Dims, sw \in Dims, sh \in Dims, rel \in RelativeOffsets :
    Construct("hero", Size(tw, th), Size(sw, sh), Point(10, 20), rel, FALSE)

NextOffset ==
  \/ \E s \in IDs : ReadOffset(s)
  \/ \E s \in IDs : InvertSize(s)

SpecOffset == InitOffset /\ [][NextOffset]_vars

(***************************************************************************)
(* Packer.  No packer is among the sources; this is the shelf placement of *)
(* spec.md section 4.4, step by step.  The Sprites it makes are made with  *)
(* the Sprite constructor, Sprite.invert_size (a rotated placement),       *)
(* Sprite.attach_sheet and Sprite.copy (a duplicate) of gd/image/sprite.py.*)
(***************************************************************************)
\* Placement requests of one run.
MaxRequests == 3

\* The names of the requests, in lexicographic order.
RequestNames == <<"a", "b", "c", "d", "e">>

\* Widths and heights of the trimmed footprints requested.
PackDims == {1, 2, 4}

Footprints == {Size(w, h) : w \in PackDims, h \in PackDims}

\* The configuration: the sheets are 4 wide and 3 high.
Config(allow_rotation) ==
  [max_sheet_width |-> 4, max_sheet_height |-> 3, allow_rotation |-> allow_rotation]

Request(name, trimmed_size, duplicate_of) ==
  [name |-> name, aliases |-> {}, source_size |-> trimmed_size,
   trimmed_size |-> trimmed_size, duplicate_of |-> duplicate_of]

\* The identity of the n-th sheet of the atlas.
SheetId(n) == "sheet" \o ToString(n)

Area(z) == z.width * z.height

NameRank(name) == CHOOSE i \in DOMAIN RequestNames : RequestNames[i] = name

\* Step 1: descending trimmed area, then descending trimmed height, then name.
Before(a, b) ==
  \/ Area(a.trimmed_size) > Area(b.trimmed_size)
  \/ /\ Area(a.trimmed_size) = Area(b.trimmed_size)
     /\ a.trimmed_size.height > b.trimmed_size.height
  \/ /\ Area(a.trimmed_size) = Area(b.trimmed_size)
     /\ a.trimmed_size.height = b.trimmed_size.height
     /\ NameRank(a.name) < NameRank(b.name)

RECURSIVE SortRequests(_)
SortRequests(S) ==
  IF S = {} THEN <<>>
  ELSE LET first == CHOOSE r \in S : \A o \in S \ {r} : Before(r, o)
       IN  <<first>> \o SortRequests(S \ {first})

\* The order of the run: the requests to place, sorted, and then the requests
\* marked as duplicates of a placed name (step 7), sorted.
Queue(S) ==
  SortRequests({r \in S : r.duplicate_of = None})
    \o SortRequests({r \in S : r.duplicate_of # None})

\* Step 2: a shelf is a strip [y, y + height) of the sheet, filled up to cursor.
Shelf(y, height, cursor) == [y |-> y, height |-> height, cursor |-> cursor]

\* Step 3: the shelf has the width left and the height for a w x h footprint.
FitsShelf(cfg, shelf, w, h) ==
  shelf.cursor + w <= cfg.max_sheet_width /\ h <= shelf.height

\* Step 3: the fitting shelf that wastes the least height, the first of them;
\* 0 when no shelf fits.
BestShelf(cfg, shelves, w, h) ==
  LET fit == {i \in DOMAIN shelves : FitsShelf(cfg, shelves[i], w, h)}
  IN  IF fit = {} THEN 0
      ELSE CHOOSE i \in fit :
             \A j \in fit :
               \/ shelves[i].height < shelves[j].height
               \/ shelves[i].height = shelves[j].height /\ i <= j

\* Step 4: where a new shelf would start, below the lowest shelf.
NextShelfY(shelves) ==
  IF shelves = <<>> THEN 0
  ELSE shelves[Len(shelves)].y + shelves[Len(shelves)].height

CanOpenShelf(cfg, shelves, w, h) ==
  w <= cfg.max_sheet_width /\ NextShelfY(shelves) + h <= cfg.max_sheet_height

\* Step 5: the footprint fits an empty sheet.
FitsSheet(cfg, w, h) == w <= cfg.max_sheet_width /\ h <= cfg.max_sheet_height

\* Steps 3 to 5 for one request: where it goes and whether it is rotated.
\* A rotated fit is taken only when no unrotated fit of the same kind exists.
Decide(cfg, shelves, t) ==
  LET w == t.width
      h == t.height
      rot == cfg.allow_rotation
      plain == BestShelf(cfg, shelves, w, h)
      turned == IF rot THEN BestShelf(cfg, shelves, h, w) ELSE 0
  IN  IF ~FitsSheet(cfg, w, h) /\ ~(rot /\ FitsSheet(cfg, h, w))
        THEN [kind |-> "unpackable", shelf |-> 0, rotated |-> FALSE]
      ELSE IF plain # 0
        THEN [kind |-> "shelf", shelf |-> plain, rotated |-> FALSE]
      ELSE IF turned # 0
        THEN [kind |-> "shelf", shelf |-> turned, rotated |-> TRUE]
      ELSE IF CanOpenShelf(cfg, shelves, w, h)
        THEN [kind |-> "new_shelf", shelf |-> Len(shelves) + 1, rotated |-> FALSE]
      ELSE IF rot /\ CanOpenShelf(cfg, shelves, h, w)
        THEN [kind |-> "new_shelf", shelf |-> Len(shelves) + 1, rotated |-> TRUE]
      ELSE [kind |-> "new_sheet", shelf |-> 1, rotated |-> ~FitsSheet(cfg, w, h)]

\* A variant of ShelvesAfter that leaves the cursor of a used shelf in place.
ShelvesAfter_cursor_kept(shelves, d, w, h) ==
  IF d.kind = "shelf"
    THEN shelves
  ELSE IF d.kind = "new_shelf"
    THEN Append(shelves, Shelf(NextShelfY(shelves), h, w))
  ELSE <<Shelf(0, h, w)>>

\* The shelves of the open sheet after a placement of a w x h footprint (as
\* placed, that is after any rotation).
ShelvesAfter(shelves, d, w, h) ==
  IF d.kind = "shelf"
    THEN [shelves EXCEPT ![d.shelf].cursor = @ + w]
  ELSE IF d.kind = "new_shelf"
    THEN Append(shelves, Shelf(NextShelfY(shelves), h, w))
  ELSE <<Shelf(0, h, w)>>

\* The origin of the placement.
OriginOf(shelves, d) ==
  IF d.kind = "shelf"
    THEN Point(shelves[d.shelf].cursor, shelves[d.shelf].y)
  ELSE IF d.kind = "new_shelf"
    THEN Point(0, NextShelfY(shelves))
  ELSE Point(0, 0)

\* The requests of a run: n requests named in order, each with a footprint;
\* any but the first may be marked a duplicate of the first.
InitPack ==
  \E n \in 1..MaxRequests, allow_rotation \in BOOLEAN :
    \E t \in [1..n -> Footprints], dup \in [2..n -> BOOLEAN] :
      /\ packer = [config |-> Config(allow_rotation),
                   queue |-> Queue({Request(RequestNames[i], t[i],
                                            IF i > 1 /\ dup[i]
                                              THEN RequestNames[1] ELSE None)
                                    : i \in 1..n}),
                   shelves |-> <<>>,
                   sheets |-> 1,
                   status |-> "packing"]
      /\ sprites = <<>>
      /\ sizes = <<>>
      /\ rects = <<>>
      /\ mapping = {}
      /\ bindings = <<>>
      /\ origins = <<>>
      /\ ret = Returned("pack", 0, 0)
      /\ once = None /\ cache = None /\ attrs = None

\* Step 5's failure: the request fits no sheet in any allowed orientation.
PackUnpackable(r) ==
  /\ packer' = [packer EXCEPT !.status = "failed"]
  /\ ret' = Raised("place", 0, "UnpackableRequest", r.name)
  /\ UNCHANGED <<sprites, sizes, rects, mapping, bindings, origins, once, cache, attrs>>

\* Steps 3 to 6 for a request that fits: the Sprite is constructed at the origin
\* found with the footprint as requested, inverted in place (invert_size) when
\* the placement is rotated, attached to the sheet and registered there.
PackPlace(r, d) ==
  LET t == r.trimmed_size
      w == IF d.rotated THEN t.height ELSE t.width
      h == IF d.rotated THEN t.width ELSE t.height
      sheet == SheetId(IF d.kind = "new_sheet" THEN packer.sheets + 1
                       ELSE packer.sheets)
      at == OriginOf(packer.shelves, d)
      s == Len(sprites) + 1
      built == Sprite(r.name, r.aliases, Point(0, 0), Len(sizes) + 1,
                      Len(sizes) + 2, Len(rects) + 1, d.rotated, 0, None)
      sizes0 == sizes \o <<t, r.source_size>>
      rects0 == Append(rects, Rectangle(at.x, at.y, t.width, t.height))
      sp == set_sheet(built, sheet)
  IN  IF Keys(sp) \cap Registered(sheet) # {}
        THEN /\ packer' = [packer EXCEPT !.status = "failed"]
             /\ ret' = Raised("place", 0, "NameCollision", r.name)
             /\ UNCHANGED <<sprites, sizes, rects, mapping, bindings, origins, once, cache, attrs>>
        ELSE /\ sizes' = IF d.rotated THEN invert_size_sizes(built, sizes0)
                         ELSE sizes0
             /\ rects' = IF d.rotated THEN invert_size_rects(built, rects0)
                         ELSE rects0
             /\ sprites' = Append(sprites, sp)
             /\ bindings' = Append(bindings, sheet)
             /\ origins' = Append(origins, 0)
             /\ mapping' = Register(sheet, s, sp)
             /\ packer' = [packer EXCEPT
                             !.queue = Tail(@),
                             !.shelves = ShelvesAfter(@, d, w, h),
                             !.sheets = IF d.kind = "new_sheet" THEN @ + 1 ELSE @,
                             !.status = IF Len(packer.queue) = 1 THEN "done" ELSE @]
             /\ ret' = Returned("place", s, sheet)
             /\ UNCHANGED <<once, cache, attrs>>

\* Step 7: a request marked as a duplicate of a placed name is not packed: the
\* placed sprite is copied (copy()) and the copy registered under the new name.
PackDuplicate(r) ==
  LET placed == {i \in IDs : sprites[i].name = r.duplicate_of
                             /\ sprites[i].copy_level = 0}
  IN  IF placed = {}
        THEN /\ packer' = [packer EXCEPT !.status = "failed"]
             /\ ret' = Raised("place", 0, "LookupMiss", r.duplicate_of)
             /\ UNCHANGED <<sprites, sizes, rects, mapping, bindings, origins, once, cache, attrs>>
        ELSE LET o == CHOOSE i \in placed : TRUE
                 c == copy(sprites[o])
                 s == Len(sprites) + 1
             IN  /\ sprites' = Append(sprites, c)
                 /\ bindings' = Append(bindings, bindings[o])
                 /\ origins' = Append(origins, o)
                 /\ mapping' = mapping \cup
                      {[sheet |-> c.sheet_unchecked, key |-> r.name, sprite |-> s]}
                 /\ packer' = [packer EXCEPT
                                 !.queue = Tail(@),
                                 !.status = IF Len(packer.queue) = 1 THEN "done"
                                            ELSE @]
                 /\ ret' = Returned("place", s, c.sheet_unchecked)
                 /\ UNCHANGED <<sizes, rects, once, cache, attrs>>

\* One step of the run: the next request of the queue.
PackStep ==
  /\ packer.status = "packing"
  /\ packer.queue # <<>>
  /\ LET r == Head(packer.queue)
         d == Decide(packer.config, packer.shelves, r.trimmed_size)
     IN  IF r.duplicate_of # None THEN PackDuplicate(r)
         ELSE IF d.kind = "unpackable" THEN PackUnpackable(r)
         ELSE PackPlace(r, d)

NextPack == PackStep

SpecPack == InitPack /\ [][NextPack]_vars

(***************************************************************************)
(* gd/decorators.py: run_once and cache_by.  Both keep their cache in      *)
(* attributes of the wrapped function object; an attribute that is not set *)
(* is the empty sequence here, one that is set the sequence of its value.  *)
(***************************************************************************)
\* Calls made to a wrapper.
MaxCalls == 5

\* The arguments a wrapper is called with.
Args == {"x", "y", "z"}

\* What the wrapped function returns when its n-th execution returns: a value
\* that tells the execution and its arguments.
Value(a, n) == [args |-> a, execution |-> n]

\* A variant of runner that does not look for the attribute.
runner_always_executes(f, a, outcome) ==
  IF outcome = "raises"
    THEN [f |-> [f EXCEPT !.executions = @ + 1, !.raises = @ + 1],
          ret |-> Raised("runner", a, "Exception", f.executions + 1)]
    ELSE [f |-> [f EXCEPT !.executions = @ + 1,
                          !.run_once_result = <<Value(a, f.executions + 1)>>],
          ret |-> Returned("runner", a, Value(a, f.executions + 1))]

\* run_once's runner(*args): without the attribute run_once_result the function
\* is executed, and the attribute set to what it returns (an execution that
\* raises sets nothing, and the exception leaves the runner); the attribute is
\* returned.
runner(f, a, outcome) ==
  IF f.run_once_result = <<>>
    THEN IF outcome = "raises"
           THEN [f |-> [f EXCEPT !.executions = @ + 1, !.raises = @ + 1],
                 ret |-> Raised("runner", a, "Exception", f.executions + 1)]
           ELSE [f |-> [f EXCEPT !.executions = @ + 1,
                                 !.run_once_result = <<Value(a, f.executions + 1)>>],
                 ret |-> Returned("runner", a, Value(a, f.executions + 1))]
    ELSE [f |-> f, ret |-> Returned("runner", a, f.run_once_result[1])]

\* The function as run_once wraps it: no attribute, never executed.
InitOnce ==
  /\ once = [run_once_result |-> <<>>, executions |-> 0, raises |-> 0, calls |-> 0]
  /\ ret = Returned("run_once", 0, 0)
  /\ cache = None /\ attrs = None
  /\ sprites = <<>> /\ sizes = <<>> /\ rects = <<>> /\ mapping = {}
  /\ bindings = <<>> /\ origins = <<>> /\ packer = None

\* A call of the wrapper, whose execution of the function (if any) returns or
\* raises.
RunOnceCall(a, outcome) ==
  /\ once.calls < MaxCalls
  /\ once' = [runner(once, a, outcome).f EXCEPT !.calls = @ + 1]
  /\ ret' = runner(once, a, outcome).ret
  /\ UNCHANGED <<spriteVars, cache, attrs>>

NextOnce == \E a \in Args, outcome \in {"returns", "raises"} : RunOnceCall(a, outcome)

SpecOnce == InitOnce /\ [][NextOnce]_vars

\* The objects a cache_by method is called on, and the values of the attribute
\* the cache is keyed by.
Objects == {"p", "q"}

AttrValues == {1, 2}

\* actual = tuple(get_attr(self) for get_attr in get_attrs), for the one name.
Actual(self) == <<attrs[self]>>

\* What the wrapped method returns at its n-th execution: a value that tells the
\* object and the attribute values it was computed with.
Result(self, n) == [self |-> self, by |-> Actual(self), execution |-> n]

\* cache_by's wrapper(self): the three ways through it.  Without _cached the
\* method is executed and _cached set (and _cached_by is NOT); with _cached and
\* _cached_by equal to the actual values _cached is returned; otherwise
\* (_cached_by missing or different) _cached_by is set, the method executed and
\* _cached set.
wrapper(f, self) ==
  LET result == Result(self, f.executions + 1) IN
    IF f.cached = <<>>
      THEN [f |-> [f EXCEPT !.cached = <<result>>, !.executions = @ + 1],
            ret |-> Returned("wrapper", self, result)]
    ELSE IF f.cached_by # <<>> /\ Actual(self) = f.cached_by[1]
      THEN [f |-> f, ret |-> Returned("wrapper", self, f.cached[1])]
    ELSE [f |-> [f EXCEPT !.cached_by = <<Actual(self)>>,
                          !.cached = <<result>>, !.executions = @ + 1],
          ret |-> Returned("wrapper", self, result)]

\* The method as cache_by wraps it, and the objects' attributes.
InitCache ==
  /\ cache = [cached |-> <<>>, cached_by |-> <<>>, executions |-> 0, calls |-> 0]
  /\ attrs \in [Objects -> AttrValues]
  /\ ret = Returned("cache_by", 0, 0)
  /\ once = None
  /\ sprites = <<>> /\ sizes = <<>> /\ rects = <<>> /\ mapping = {}
  /\ bindings = <<>> /\ origins = <<>> /\ packer = None

\* A call of the wrapped method on an object.
CacheByCall(self) ==
  /\ cache.calls < MaxCalls
  /\ cache' = [wrapper(cache, self).f EXCEPT !.calls = @ + 1]
  /\ ret' = wrapper(cache, self).ret
  /\ UNCHANGED <<spriteVars, once, attrs>>

\* The caller assigns the attribute of an object.
SetAttr(self, v) ==
  /\ attrs[self] # v
  /\ attrs' = [attrs EXCEPT ![self] = v]
  /\ UNCHANGED <<spriteVars, once, cache, ret>>

NextCache ==
  \/ \E self \in Objects : CacheByCall(self)
  \/ \E self \in Objects, v \in AttrValues : SetAttr(self, v)

SpecCache == InitCache /\ [][NextCache]_vars

(***************************************************************************)
(* The claims about Sprite, checked under Spec.                            *)
(***************************************************************************)
\* The fields of sprite object sp with its geometry references followed, in
\* the heaps sz (of Size objects) and rc (of Rectangle objects).
FieldsIn(sp, sz, rc) ==
  [name |-> sp.name, aliases |-> sp.aliases, relative_offset |-> sp.relative_offset,
   size |-> sz[sp.size], source_size |-> sz[sp.source_size],
   rectangle |-> rc[sp.rectangle], rotated |-> sp.rotated,
   copy_level |-> sp.copy_level, sheet_unchecked |-> sp.sheet_unchecked]

\* The fields of sprite s before and after a step.
Fields(s) == FieldsIn(sprites[s], sizes, rects)

FieldsAfter(s) == FieldsIn(sprites'[s], sizes', rects')

\* C3: owner() (get_sheet) returns the sheet of the sprite's most recent attach
\* when no detach came after it, and raises ValueError when the sprite was never
\* attached or was detached last; a get_sheet call changes nothing; detaching
\* an unbound sprite succeeds and leaves it unbound.
C3_OwnerFollowsLastBinding ==
  /\ [](ret.op = "get_sheet" =>
          IF bindings[ret.self] \in Sheets
            THEN ret.raised = None /\ ret.value = bindings[ret.self]
            ELSE ret.raised = "ValueError")
  /\ [][ret'.op = "get_sheet" =>
          UNCHANGED <<sprites, sizes, rects, mapping, bindings>>]_vars
  /\ [][(ret'.op = "detach_sheet" /\ bindings[ret'.self] \notin Sheets) =>
          /\ ret'.raised = None
          /\ ret'.value = ret'.self
          /\ get_sheet("get_sheet", ret'.self, sprites'[ret'.self]).raised
               = "ValueError"]_vars

\* C3's case: owner() fails on a sprite that was attached and then detached.
C3_Witness ==
  /\ ret.op = "get_sheet"
  /\ ret.raised = "ValueError"
  /\ bindings[ret.self] = "detach"

\* C4: copy() returns a new Sprite whose name, aliases, relative_offset, size,
\* source_size, rectangle and rotated equal the original's, whose copy_level is
\* the original's plus one and whose sheet is the original's; the original is
\* unchanged.
C4_CopyKeepsFields ==
  [][ret'.op = "copy" =>
       LET s == ret'.self
           c == ret'.value
       IN  /\ c \notin IDs
           /\ c \in DOMAIN sprites'
           /\ FieldsAfter(c) =
                [Fields(s) EXCEPT !.copy_level = @ + 1]
           /\ \A i \in IDs : FieldsAfter(i) = Fields(i)]_vars

\* C4's case: a sprite attached to a sheet was copied.
C4_Witness ==
  /\ ret.op = "copy"
  /\ sprites[ret.value].copy_level = sprites[ret.self].copy_level + 1
  /\ sprites[ret.value].sheet_unchecked \in Sheets

\* C6: inverted_size() returns a new Sprite whose size and source_size have width
\* and height swapped, whose rectangle has width and height swapped at the same
\* origin, whose copy_level is the original's plus one, and whose name, aliases,
\* relative_offset, rotated and sheet are the original's; the original is
\* unchanged.
C6_InvertedSizeSwaps ==
  [][ret'.op = "inverted_size" =>
       LET s == ret'.self
           r == ret'.value
           old == Fields(s)
       IN  /\ r \notin IDs
           /\ r \in DOMAIN sprites'
           /\ FieldsAfter(r) =
                [old EXCEPT
                   !.size = Size(old.size.height, old.size.width),
                   !.source_size = Size(old.source_size.height, old.source_size.width),
                   !.rectangle = Rectangle(old.rectangle.x, old.rectangle.y,
                                           old.rectangle.height, old.rectangle.width),
                   !.copy_level = @ + 1]
           /\ \A i \in IDs : FieldsAfter(i) = Fields(i)]_vars

\* C6's case: a bound sprite whose footprint is not square was inverted into a
\* new sprite.
C6_Witness ==
  /\ ret.op = "inverted_size"
  /\ sprites[ret.value].sheet_unchecked \in Sheets
  /\ sizes[sprites[ret.value].size].width # sizes[sprites[ret.value].size].height

C2_AttachedIffReachable ==
  \A s \in IDs, sheet \in Sheets :
    Reachable(s, sheet) <=> sprites[s].sheet_unchecked = sheet

\* A copy chain: a sprite of copy level 0, a copy of it and a copy of that copy
\* (copy() hands its rectangle object on, inverted_size() makes a new one).
CopyChain(a, b, c) ==
  /\ sprites[a].copy_level = 0
  /\ sprites[b].copy_level = 1
  /\ sprites[c].copy_level = 2
  /\ sprites[a].rectangle = sprites[b].rectangle
  /\ sprites[b].rectangle = sprites[c].rectangle

\* lookup of a sprite's name_with_copy in the sheet it is attached to finds it.
Resolvable(s) ==
  LET sp == sprites[s] IN
    sp.sheet_unchecked \in Sheets =>
      LET found == lookup(sp.sheet_unchecked, name_with_copy(sp)) IN
        found.raised = None /\ found.value = s

\* C5: name_with_copy is the name followed by "_copy" once per copy level; the
\* three sprites of a copy chain have pairwise distinct name_with_copy values
\* (for "hero": "hero", "hero_copy", "hero_copy_copy"), are all resolvable via
\* lookup, and have the same rectangle.
C5_CopyLevelNaming ==
  /\ ret.op = "name_with_copy" =>
       LET sp == sprites[ret.self] IN
         /\ sp.copy_level = 0 => ret.value = sp.name
         /\ sp.copy_level = 1 => ret.value = sp.name \o "_copy"
         /\ sp.copy_level = 2 => ret.value = sp.name \o "_copy_copy"
  /\ \A a \in IDs, b \in IDs, c \in IDs :
       CopyChain(a, b, c) =>
         /\ sprites[a].name = "hero" =>
              /\ name_with_copy(sprites[a]) = "hero"
              /\ name_with_copy(sprites[b]) = "hero_copy"
              /\ name_with_copy(sprites[c]) = "hero_copy_copy"
         /\ Cardinality({name_with_copy(sprites[a]), name_with_copy(sprites[b]),
                         name_with_copy(sprites[c])}) = 3
         /\ Resolvable(a) /\ Resolvable(b) /\ Resolvable(c)
         /\ rects[sprites[a].rectangle] = rects[sprites[b].rectangle]
         /\ rects[sprites[b].rectangle] = rects[sprites[c].rectangle]

(***************************************************************************)
(* The claim about the offset, checked under SpecOffset.                   *)
(***************************************************************************)
\* C8: the offset read from a sprite is (relative_offset.x + (source_size.width -
\* rectangle.width) / 2, relative_offset.y - (source_size.height -
\* rectangle.height) / 2) of the fields as they are at the read, and is no field
\* of the sprite; for source_size (100, 80), a 60 x 80 rectangle and
\* relative_offset (0, 0) it is (20, 0); it equals relative_offset exactly when
\* the rectangle's width and height are the source_size's.
C8_OffsetFormula ==
  ret.op = "offset" =>
    LET sp == sprites[ret.self]
        rel == sp.relative_offset
        src == sizes[sp.source_size]
        rec == rects[sp.rectangle]
        off == ret.value
    IN  /\ off.x.den \in {1, 2} /\ off.y.den \in {1, 2}
        /\ 2 * off.x.num = off.x.den * (2 * rel.x + (src.width - rec.width))
        /\ 2 * off.y.num = off.y.den * (2 * rel.y - (src.height - rec.height))
        /\ "offset" \notin DOMAIN sp
        /\ (src = Size(100, 80) /\ rec.width = 60 /\ rec.height = 80
              /\ rel = Point(0, 0))
             => off = [x |-> Whole(20), y |-> Whole(0)]
        /\ (off = [x |-> Whole(rel.x), y |-> Whole(rel.y)])
             <=> (rec.width = src.width /\ rec.height = src.height)

\* C8's case: the offset of the (100, 80) source trimmed to 60 x 80 was read,
\* and came out as (20, 0).
C8_Witness ==
  /\ ret.op = "offset"
  /\ sizes[sprites[ret.self].source_size] = Size(100, 80)
  /\ rects[sprites[ret.self].rectangle].width = 60
  /\ rects[sprites[ret.self].rectangle].height = 80
  /\ sprites[ret.self].relative_offset = Point(0, 0)
  /\ ret.value = [x |-> Whole(20), y |-> Whole(0)]

(***************************************************************************)
(* The claim about the packer, checked under SpecPack.                     *)
(***************************************************************************)
\* Two rectangles intersect when their interiors share a point.
Intersect(a, b) ==
  /\ a.x < b.x + b.width
  /\ b.x < a.x + a.width
  /\ a.y < b.y + b.height
  /\ b.y < a.y + a.height

\* The sprites of copy level 0 placed in the same sheet.
PlacedTogether(i, j) ==
  /\ i # j
  /\ sprites[i].copy_level = 0
  /\ sprites[j].copy_level = 0
  /\ sprites[i].sheet_unchecked = sprites[j].sheet_unchecked

\* C1: at every step of a packing run, the rectangles of two distinct sprites of
\* copy level 0 placed in the same sheet do not intersect.
C1_NonOverlap ==
  \A i \in IDs, j \in IDs :
    PlacedTogether(i, j) =>
      ~Intersect(rects[sprites[i].rectangle], rects[sprites[j].rectangle])

\* C1's case: a finished run that put three sprites in one sheet, one of them
\* rotated, on more than one shelf.
C1_Witness ==
  /\ packer.status = "done"
  /\ Len(packer.shelves) > 1
  /\ \E i \in IDs, j \in IDs, k \in IDs :
       /\ PlacedTogether(i, j) /\ PlacedTogether(j, k) /\ PlacedTogether(i, k)
       /\ sprites[i].rotated

C10_CachedByAttributes ==
  /\ [](ret.op = "wrapper" => ret.value.self = ret.self)
  /\ [][(cache'.calls = cache.calls + 1 /\ cache.cached # <<>>) =>
          LET self == ret'.self
              computed == cache.cached[1]
          IN  IF computed.self = self /\ computed.by = Actual(self)
                THEN /\ ret'.value = computed
                     /\ cache'.executions = cache.executions
                ELSE /\ cache'.executions = cache.executions + 1
                     /\ cache'.cached = <<ret'.value>>
                     /\ cache'.cached_by = <<Actual(self)>>]_vars

(***************************************************************************)
(* The claim about copies, checked under SpecCopy.                         *)
(***************************************************************************)
RECURSIVE CopyDerived(_, _)
\* b was derived from a through copy() alone: a chain of copies leads from a
\* to b.
CopyDerived(a, b) ==
  origins[b] # 0 /\ (origins[b] = a \/ CopyDerived(a, origins[b]))

\* The size, source size and rectangle a sprite has, read through its references.
Geometry(sp, sz, rc) ==
  [size |-> sz[sp.size], source_size |-> sz[sp.source_size],
   rectangle |-> rc[sp.rectangle]]

\* C11: after any sequence of copy, invert_size, attach and detach operations a
\* sprite and every sprite derived from it through copy() alone have equal
\* size, source_size and rectangle; an in-place invert_size() on either of them
\* inverts the geometry of both; and the binding is not shared: an attach or
\* detach of one sprite leaves the binding of every other sprite unchanged.
C11_CopiesShareGeometry ==
  /\ [](\A a \in IDs, b \in IDs :
          CopyDerived(a, b) =>
            Geometry(sprites[a], sizes, rects) = Geometry(sprites[b], sizes, rects))
  /\ [][\A s \in IDs, o \in IDs :
          (ret'.op = "invert_size" /\ ret'.self = s
             /\ (s = o \/ CopyDerived(s, o) \/ CopyDerived(o, s))) =>
            /\ sizes'[sprites'[o].size] = SizeInverted(sizes[sprites[o].size])
            /\ sizes'[sprites'[o].source_size] =
                 SizeInverted(sizes[sprites[o].source_size])
            /\ rects'[sprites'[o].rectangle] =
                 RectangleInvertedSize(rects[sprites[o].rectangle])]_vars
  /\ [][\A s \in IDs, o \in IDs :
          (ret'.op \in {"attach_sheet", "detach_sheet"} /\ ret'.self = s /\ o # s) =>
            sprites'[o].sheet_unchecked = sprites[o].sheet_unchecked]_vars

\* C11's case: a sprite bound to a sheet, a copy of it and a copy of that copy,
\* the last one detached and then inverted in place: the three have the
\* inverted size, and only the last one is unbound.
C11_Witness ==
  \E a \in IDs, b \in IDs, c \in IDs :
    /\ origins[a] = 0 /\ origins[b] = a /\ origins[c] = b
    /\ ret.op = "invert_size" /\ ret.self = c
    /\ sizes[sprites[a].size] = Size(80, 60)
    /\ sizes[sprites[c].size] = Size(80, 60)
    /\ sprites[a].sheet_unchecked \in Sheets
    /\ sprites[b].sheet_unchecked \in Sheets
    /\ sprites[c].sheet_unchecked = None

====
